---- MODULE Spec2Model ----
(***************************************************************************)
(* gulp-contentful-mpa-builder, src/index.js: configuration resolution     *)
(* (exports.init mutating the module-level DEFAULT_CONFIG, then merging),  *)
(* task registration, composition of the default sequence and its          *)
(* execution by run-sequence on gulp 3.                                    *)
(***************************************************************************)
EXTENDS Integers, Sequences, FiniteSets, TLC

(* JavaScript `undefined` and defined values: an optional value is a       *)
(* sequence of length 0 (undefined) or 1 (the value).                      *)
Undefined == <<>>
Def(v) == <<v>>
IsDef(x) == x # Undefined
Val(x) == x[1]

(* ---------------------------------------------------------------------- *)
(* Bounds and input sets                                                   *)
(* ---------------------------------------------------------------------- *)
MaxCleanLen == 2

(* A path is the sequence of its segments. *)
BasePaths == {<<"app">>, <<"src">>}
DestPaths == {<<"public">>, <<"build">>}
UserCleanPaths == {<<"tmp">>}
UserBaseDirs == {<<"www">>}
UserManifestFiles == {<<"assets.json">>}

Opt(S) == {Undefined} \cup {Def(v) : v \in S}
SeqsUpTo(S, n) == UNION {[1..k -> S] : k \in 0..n}

(* The options objects init is called with. views: key absent, the boolean *)
(* false, {} or an object; sitemap: key absent, {} or an object.           *)
ResolveOptions ==
  [base : Opt(BasePaths), dest : Opt(DestPaths),
   clean : Opt(SeqsUpTo(UserCleanPaths, MaxCleanLen)),
   views : {"absent", "false"}, sitemap : {"absent"},
   baseDir : Opt(UserBaseDirs), manifestFile : Opt(UserManifestFiles)]
ExtendsArgs == {Undefined, Def(TRUE), Def(FALSE)}

(* The options of the runs of the default task: every views and sitemap    *)
(* value, one root each.                                                   *)
RunOptions ==
  [base : Opt({<<"app">>}), dest : Opt({<<"public">>}),
   clean : Opt({<<>>, <<<<"tmp">>>>}),
   views : {"absent", "false", "empty", "object"},
   sitemap : {"absent", "empty", "object"},
   baseDir : {Undefined}, manifestFile : {Undefined}]

(* The options of the repeated-call check: two destinations, so that a     *)
(* later call can meet defaults derived from other roots.                  *)
DetOptions ==
  [base : Opt({<<"app">>}), dest : Opt(DestPaths),
   clean : Opt({<<<<"tmp">>>>}),
   views : {"absent", "false"}, sitemap : {"absent", "empty"},
   baseDir : {Undefined}, manifestFile : {Undefined}]
DetExtendsArgs == {Undefined, Def(FALSE)}

\* util.env: the run-time flags --serve and -s
Envs == [serve : BOOLEAN, s : BOOLEAN]

(* ---------------------------------------------------------------------- *)
(* Pure helpers                                                            *)
(* ---------------------------------------------------------------------- *)
\* path.join on segment sequences
join(a, b) == a \o b

\* JavaScript truthiness of an optional path ('' is falsy)
Truthy(x) == IsDef(x) /\ Val(x) # <<>>

\* line 79: if (typeof extendsDefaults !== 'boolean') extendsDefaults = true
NormExtends(e) == IF IsDef(e) THEN Val(e) ELSE TRUE

\* lines 25-48, the fields init can assign and the sitemap default
PRISTINE_DEFAULT_CONFIG ==
  [clean |-> Undefined, baseDir |-> Undefined, p |-> Undefined, sitemap |-> "absent"]

\* variant: the two paths in the other order
DerivedClean_swapped(o) == <<join(Val(o.base), <<"views", ".contentful">>), Val(o.dest)>>
\* lines 82-85
DerivedClean(o) == <<Val(o.dest), join(Val(o.base), <<"views", ".contentful">>)>>

\* lines 89-93: the helper is a closure over options; it reads the manifest at
\* join(options.dest, options.rev.manifestFile || 'rev-manifest.json')
DerivedP(o) ==
  [manifest |-> join(Val(o.dest),
                     IF IsDef(o.manifestFile) THEN Val(o.manifestFile)
                     ELSE <<"rev-manifest.json">>)]

\* line 81
DerivationRuns(o) == Truthy(o.dest) /\ Truthy(o.base)

\* lines 81-94: DEFAULT_CONFIG after the derivation step of a call with options o
Derive(d, o) ==
  IF DerivationRuns(o)
  THEN [d EXCEPT !.clean = Def(DerivedClean(o)),
                 !.baseDir = Def(Val(o.dest)),
                 !.p = Def(DerivedP(o))]
  ELSE d

\* gulp-task-helpers#config: deep merge of options over defaults; arrays are
\* concatenated when useConcat, replaced otherwise
MergeArray(d, u, useConcat) ==
  IF ~IsDef(u) THEN d
  ELSE IF IsDef(d) /\ useConcat THEN Def(Val(d) \o Val(u))
  ELSE u

MergeValue(d, u) == IF IsDef(u) THEN u ELSE d

Config(o, d, useConcat) ==
  [base |-> o.base, dest |-> o.dest,
   clean |-> MergeArray(d.clean, o.clean, useConcat),
   views |-> IF o.views = "false" THEN "false" ELSE "object",
   p |-> IF o.views = "false" THEN Undefined ELSE d.p,
   sitemap |-> IF o.sitemap = "absent" THEN d.sitemap ELSE o.sitemap,
   baseDir |-> MergeValue(d.baseDir, o.baseDir),
   manifestFile |-> o.manifestFile]

NoOptions ==
  [base |-> Undefined, dest |-> Undefined, clean |-> Undefined, views |-> "absent",
   sitemap |-> "absent", baseDir |-> Undefined, manifestFile |-> Undefined]
NoConfig == Config(NoOptions, PRISTINE_DEFAULT_CONFIG, TRUE)

(* ---------------------------------------------------------------------- *)
(* Tasks and the default sequence                                          *)
(* ---------------------------------------------------------------------- *)
\* gulp-pipe-assets registers the asset tasks and the aggregate 'assets'
AssetTasks ==
  {"images", "videos", "fonts", "documents", "extras", "scripts", "styles", "rev", "assets"}
\* gulp-pipe-metalcontentful registers 'views'
ViewsTasks == {"views"}

\* variant: the templated-content provider initialised whatever views is
Registers_viewsAlways(cfg) ==
  AssetTasks \cup ViewsTasks \cup {"clean"}
  \cup (IF cfg.sitemap # "absent" THEN {"sitemap"} ELSE {})
  \cup {"serve", "default"}
\* lines 99-123: the names one init call registers
Registers(cfg) ==
  AssetTasks
  \cup (IF cfg.views # "false" THEN ViewsTasks ELSE {})
  \cup {"clean"}
  \cup (IF cfg.sitemap # "absent" THEN {"sitemap"} ELSE {})
  \cup {"serve", "default"}

\* line 103: the clean task returns at once
CleanIsNoop(cfg) == ~IsDef(cfg.clean) \/ Len(Val(cfg.clean)) = 0

\* lines 102-106: what the clean task hands to gulp: nothing (a synchronous
\* task) or del's promise
cleanTask(cfg) == IF CleanIsNoop(cfg) THEN "sync" ELSE "promise"

\* lines 109-116: the sitemap task returns the stream
sitemapTask == "stream"

\* variant: a serve task that declares a callback and never calls it
serveTask_awaitsCallback == "pending"
\* lines 119-121: the serve task takes no callback and returns nothing
serveTask == "sync"

\* what a running task hands to gulp
TaskKind(t, cfg) ==
  CASE t = "clean" -> cleanTask(cfg)
    [] t = "sitemap" -> sitemapTask
    [] t = "serve" -> serveTask
    [] OTHER -> "external"

\* gulp 3 (orchestrator runTask): a synchronous task is complete when it
\* returns; a promise, a stream or a provider's task completes or fails; a
\* task that declares a callback and never calls it never completes
Outcomes(kind) ==
  CASE kind = "sync" -> {"ok"}
    [] kind = "pending" -> {}
    [] OTHER -> {"ok", "err"}

Push(s, cond, x) == IF cond THEN Append(s, x) ELSE s

\* variant: the sitemap gate nested under the views gate
DefaultSeq_sitemapUnderViews(cfg, e) ==
  Append(Push(Append(Push(Push(<<"clean">>, cfg.views # "false", "views"),
                          cfg.views # "false" /\ cfg.sitemap # "absent", "sitemap"),
                     "assets"),
              e.serve \/ e.s, "serve"),
         "callback")
\* variant: serve pushed before assets
DefaultSeq_serveBeforeAssets(cfg, e) ==
  Append(Append(Push(Push(Push(<<"clean">>, cfg.views # "false", "views"),
                          cfg.sitemap # "absent", "sitemap"),
                     e.serve \/ e.s, "serve"),
                "assets"),
         "callback")
\* lines 124-129: seq, the callback its last element
DefaultSeq(cfg, e) ==
  Append(Push(Append(Push(Push(<<"clean">>, cfg.views # "false", "views"),
                          cfg.sitemap # "absent", "sitemap"),
                     "assets"),
              e.serve \/ e.s, "serve"),
         "callback")

\* variant: the names passed as one array, which run-sequence runs in parallel
ApplyArgs_asArray(s) == << {s[i] : i \in 1..(Len(s) - 1)} >>
\* line 130: sequence.use(gulp).apply(null, seq): each name is an argument of
\* its own, so a task set of its own (an array argument is one parallel set)
ApplyArgs(s) == [i \in 1..(Len(s) - 1) |-> {s[i]}]

Range(s) == {s[i] : i \in 1..Len(s)}

(* ---------------------------------------------------------------------- *)
(* State                                                                   *)
(* ---------------------------------------------------------------------- *)
VARIABLES
  DEFAULT_CONFIG,   \* the module-level defaults object (mutable fields)
  inited,           \* init has been called
  options,          \* the options of the latest init call
  extendsDefaults,  \* its normalised second argument
  derived,          \* whether the latest call ran the derivation step
  config,           \* the latest call's resolved configuration
  tasks,            \* gulp's task registry (names)
  registered,       \* the names the latest init call registered
  first,            \* the first init call: its arguments and its result
  status,           \* the default task: "idle", "running", "done"
  env,              \* util.env of the run
  seq,              \* the sequence the default task composed
  pending,          \* run-sequence: the task sets not yet started
  running,          \* run-sequence: the current task set
  launched,         \* the task sets started so far, in order
  failed,           \* the tasks that failed
  cbCalls,          \* the completion callback's invocations: "ok" or "err"
  thrown,           \* run-sequence's verification threw
  serverUp          \* browserSync.init has been called

resolveVars == <<DEFAULT_CONFIG, inited, options, extendsDefaults, derived, config,
                 tasks, registered>>
runVars == <<status, env, seq, pending, running, launched, failed, cbCalls, thrown,
             serverUp>>
vars == <<resolveVars, first, runVars>>

Init ==
  /\ DEFAULT_CONFIG = PRISTINE_DEFAULT_CONFIG
  /\ inited = FALSE
  /\ options = NoOptions
  /\ extendsDefaults = TRUE
  /\ derived = FALSE
  /\ config = NoConfig
  /\ tasks = {}
  /\ registered = {}
  /\ first = Undefined
  /\ status = "idle"
  /\ env = [serve |-> FALSE, s |-> FALSE]
  /\ seq = <<>>
  /\ pending = <<>>
  /\ running = {}
  /\ launched = <<>>
  /\ failed = {}
  /\ cbCalls = <<>>
  /\ thrown = FALSE
  /\ serverUp = FALSE

\* lines 78-131: exports.init(options, extendsDefaults)
initBody(o, e) ==
  /\ status = "idle"
  /\ inited' = TRUE
  /\ options' = o
  /\ extendsDefaults' = NormExtends(e)
  /\ derived' = DerivationRuns(o)
  /\ DEFAULT_CONFIG' = Derive(DEFAULT_CONFIG, o)
  /\ config' = Config(o, DEFAULT_CONFIG', NormExtends(e))
  /\ registered' = Registers(config')
  /\ tasks' = tasks \cup registered'
  /\ UNCHANGED runVars

init(o, e) == initBody(o, e) /\ UNCHANGED first

\* init, the first call's arguments and result kept for comparison
initRecorded(o, e) ==
  /\ initBody(o, e)
  /\ first' = IF IsDef(first) THEN first
              ELSE Def([options |-> o, extendsDefaults |-> NormExtends(e),
                        config |-> config'])

\* run-sequence runNextSet, started with the task sets `sets`
StartNext(sets) ==
  /\ running' = Head(sets)
  /\ pending' = Tail(sets)
  /\ launched' = Append(launched, Head(sets))
  /\ serverUp' = (serverUp \/ "serve" \in Head(sets))

\* lines 123-131: the default task, run with the flags e
defaultTask(e) ==
  /\ inited
  /\ status = "idle"
  /\ env' = e
  /\ seq' = DefaultSeq(config, e)
  /\ IF UNION Range(ApplyArgs(seq')) \subseteq tasks
     THEN /\ status' = "running"
          /\ StartNext(ApplyArgs(seq'))
          /\ UNCHANGED thrown
     ELSE \* run-sequence verifyTaskSets throws
          /\ status' = "done"
          /\ thrown' = TRUE
          /\ UNCHANGED <<pending, running, launched, serverUp>>
  /\ UNCHANGED <<resolveVars, first, failed, cbCalls>>

\* gulp's task_stop for t: run-sequence onTaskEnd, then runNextSet or finish()
stageStop(t) ==
  /\ status = "running"
  /\ t \in running
  /\ "ok" \in Outcomes(TaskKind(t, config))
  /\ IF running # {t}
     THEN /\ running' = running \ {t}
          /\ UNCHANGED <<status, pending, launched, cbCalls, serverUp>>
     ELSE IF pending # <<>>
     THEN /\ StartNext(pending)
          /\ UNCHANGED <<status, cbCalls>>
     ELSE /\ running' = {}
          /\ status' = "done"
          /\ cbCalls' = Append(cbCalls, "ok")
          /\ UNCHANGED <<pending, launched, serverUp>>
  /\ UNCHANGED <<resolveVars, first, env, seq, failed, thrown>>

\* gulp's task_err for t: run-sequence onError, finish(err)
stageErr(t) ==
  /\ status = "running"
  /\ t \in running
  /\ "err" \in Outcomes(TaskKind(t, config))
  /\ running' = running \ {t}
  /\ failed' = failed \cup {t}
  /\ status' = "done"
  /\ cbCalls' = Append(cbCalls, "err")
  /\ UNCHANGED <<resolveVars, first, env, seq, pending, launched, thrown, serverUp>>

StageNames == {"clean", "views", "sitemap", "assets", "serve"}

Next == \E o \in ResolveOptions, e \in ExtendsArgs : init(o, e)

Spec == Init /\ [][Next]_vars

NextDet == \E o \in DetOptions, e \in DetExtendsArgs : initRecorded(o, e)

SpecDet == Init /\ [][NextDet]_vars

NextRun ==
  \/ \E o \in RunOptions : init(o, Undefined)
  \/ \E e \in Envs : defaultTask(e)
  \/ \E t \in StageNames : stageStop(t)
  \/ \E t \in StageNames : stageErr(t)

SpecRun == Init /\ [][NextRun]_vars

\* a running stage's promise, stream or provider task settles
SpecRunFair ==
  SpecRun /\ WF_vars(\E t \in StageNames : stageStop(t) \/ stageErr(t))

(* ---------------------------------------------------------------------- *)
(* Properties                                                              *)
(* ---------------------------------------------------------------------- *)
BothRoots == Truthy(options.base) /\ Truthy(options.dest)
OwnCleanDefault ==
  <<Val(options.dest), Val(options.base) \o <<"views", ".contentful">>>>

\* C1: whenever options.clean is provided, the resolved config.clean is
\* exactly the user's list (for either value of extendsDefaults).
C1_CleanOverride ==
  (inited /\ IsDef(options.clean)) => config.clean = options.clean

\* C2: the clean default, the serve.server.baseDir default and the
\* views.metadata.p helper that feed a call are derived from that call's own
\* base and dest only: its own derivation when both are set, unset otherwise.
C2_NoStaleDefaults ==
  inited =>
    IF BothRoots
    THEN /\ DEFAULT_CONFIG.clean = Def(OwnCleanDefault)
         /\ DEFAULT_CONFIG.baseDir = Def(Val(options.dest))
         /\ IsDef(DEFAULT_CONFIG.p)
         /\ SubSeq(Val(DEFAULT_CONFIG.p).manifest, 1, Len(Val(options.dest)))
              = Val(options.dest)
    ELSE /\ DEFAULT_CONFIG.clean = Undefined
         /\ DEFAULT_CONFIG.baseDir = Undefined
         /\ DEFAULT_CONFIG.p = Undefined

\* C3: a call with exactly one of base and dest set skips the derivation
\* step, and with no user-supplied clean its clean task is a no-op that
\* completes successfully.
C3_SkippedDerivation ==
  (inited /\ (IsDef(options.base) # IsDef(options.dest))) =>
    /\ ~derived
    /\ ~IsDef(options.clean) =>
         (CleanIsNoop(config) /\ Outcomes(cleanTask(config)) = {"ok"})

\* C4: with base and dest both set and no clean provided, config.clean is
\* exactly [dest, join(base, 'views', '.contentful')], and
\* serve.server.baseDir is dest when the user gave none.
C4_DerivedClean ==
  (inited /\ BothRoots /\ ~IsDef(options.clean)) =>
    /\ config.clean = Def(OwnCleanDefault)
    /\ ~IsDef(options.baseDir) => config.baseDir = options.dest

C4_Witness ==
  /\ inited /\ ~IsDef(options.clean) /\ ~IsDef(options.baseDir)
  /\ options.base = Def(<<"src">>) /\ options.dest = Def(<<"build">>)
  /\ config.clean = Def(<< <<"build">>, <<"src", "views", ".contentful">> >>)
  /\ config.baseDir = Def(<<"build">>)

\* C5: 'sitemap' is in the composed sequence iff config.sitemap is not
\* undefined ({} enables it), whatever the views gate says, and iff the same
\* init call registered a 'sitemap' task; the sequence never names an
\* unregistered sitemap task.
C5_SitemapGate ==
  status # "idle" =>
    /\ ("sitemap" \in Range(seq)) <=> (config.sitemap # "absent")
    /\ ("sitemap" \in Range(seq)) <=> (options.sitemap \in {"empty", "object"})
    /\ ("sitemap" \in Range(seq)) <=> ("sitemap" \in registered)
    /\ ("sitemap" \in Range(seq)) => ("sitemap" \in tasks)
    /\ ~thrown

C5_Witness ==
  /\ status = "running" /\ "sitemap" \in running
  /\ config.views = "false" /\ options.sitemap = "empty"
  /\ launched = << {"clean"}, {"sitemap"} >>

\* C6: when views resolves to false the sequence has no 'views' and the
\* call does not initialise the templated-content provider (registers none of
\* its tasks); for absent, {} or an object 'views' is in the sequence and the
\* provider is initialised.
C6_ViewsGate ==
  status # "idle" =>
    IF options.views = "false"
    THEN /\ config.views = "false"
         /\ "views" \notin Range(seq)
         /\ registered \cap ViewsTasks = {}
    ELSE /\ "views" \in Range(seq)
         /\ ViewsTasks \subseteq registered

C6_Witness ==
  /\ status = "running" /\ options.views = "false"
  /\ launched = << {"clean"}, {"assets"} >> /\ "assets" \in running

Rank(x) ==
  CASE x = "clean" -> 1 [] x = "views" -> 2 [] x = "sitemap" -> 3
    [] x = "assets" -> 4 [] x = "serve" -> 5 [] x = "callback" -> 6
    [] OTHER -> 0

\* C7: the sequence starts with 'clean', contains 'assets', keeps
\* clean < views < sitemap < assets < serve, contains 'serve' iff --serve or
\* -s is set and then right before the callback, ends with the callback, and
\* names no stage twice.
C7_Ordering ==
  status # "idle" =>
    /\ seq[1] = "clean"
    /\ "assets" \in Range(seq)
    /\ \A i, j \in 1..Len(seq) : i < j => (0 < Rank(seq[i]) /\ Rank(seq[i]) < Rank(seq[j]))
    /\ ("serve" \in Range(seq)) <=> (env.serve \/ env.s)
    /\ ("serve" \in Range(seq)) => seq[Len(seq) - 1] = "serve"
    /\ seq[Len(seq)] = "callback"

C7_Witness ==
  /\ status = "running" /\ env.s /\ ~env.serve
  /\ seq = <<"clean", "views", "sitemap", "assets", "serve", "callback">>

\* C8: the stages start one at a time in the order of the sequence, each
\* after the one before it completed; after a failure nothing further is
\* started, the failed stage is not started again and the callback gets the
\* failure.
C8_Sequential ==
  /\ Cardinality(running) <= 1
  /\ Len(launched) < Len(seq) \/ seq = <<>>
  /\ \A i \in 1..Len(launched) : launched[i] = {seq[i]}
  /\ status = "running" => (running = launched[Len(launched)] /\ failed = {} /\ cbCalls = <<>>)
  /\ failed # {} =>
       /\ status = "done" /\ running = {}
       /\ failed = launched[Len(launched)]
       /\ cbCalls = <<"err">>
  /\ (status = "done" /\ failed = {}) =>
       (Len(launched) = Len(seq) - 1 /\ cbCalls = <<"ok">>)

C8_Witness ==
  /\ failed = {"sitemap"} /\ env.serve
  /\ launched = << {"clean"}, {"views"}, {"sitemap"} >>
  /\ seq = <<"clean", "views", "sitemap", "assets", "serve", "callback">>
  /\ cbCalls = <<"err">>

\* C9: two init calls with the same options and the same extendsDefaults
\* resolve to the same configuration, whatever calls lie between them.
C9_Deterministic ==
  (IsDef(first) /\ options = Val(first).options
     /\ extendsDefaults = Val(first).extendsDefaults)
  => config = Val(first).config

\* C10: a run of the default task always reaches its callback, which is
\* invoked at most once and with no error when no stage failed, also with
\* the serve flag: the serve stage completes once the server is started, and
\* the server is still up when the callback runs.
C10_Completion ==
  /\ [](Len(cbCalls) <= 1)
  /\ []((status = "done" /\ failed = {}) => cbCalls = <<"ok">>)
  /\ []((cbCalls = <<"ok">> /\ (env.serve \/ env.s)) => serverUp)
  /\ (status = "running") ~> (cbCalls # <<>>)

C10_Witness ==
  /\ status = "done" /\ cbCalls = <<"ok">> /\ env.serve /\ serverUp
  /\ launched[Len(launched)] = {"serve"}

====
